---- MODULE Spec2Model ----
(***************************************************************************)
(* Model of django-compilefixtures: the compilefixtures management command *)
(* (Command.handle / process_apps / _get_compiler_module / compile_fixture)*)
(* and BaseFixtureCompiler (get_fixture_dir, get_filename,                 *)
(* dumpdata_excludes).                                                     *)
(*                                                                         *)
(* A dotted name ("shop.tests.fixturecompilers") is the sequence of its    *)
(* segments.  A file-system path is the sequence of its components, each   *)
(* component being a dotted name ("alpha.json" is <<"alpha", "json">>), so *)
(* that "a.b/fixtures" and "a/b/fixtures" are different paths.             *)
(***************************************************************************)
EXTENDS Integers, Sequences, FiniteSets, TLC

VARIABLES
    INSTALLED_APPS,      \* settings.INSTALLED_APPS: a list of dotted names
    importable,          \* the dotted names importlib.import_module accepts
    files,               \* the apps whose <app>/tests/fixturecompilers.py is a file
    args,                \* handle(*apps): the identifiers given by the caller
    pc,                  \* position in handle / process_apps
    explicit_list,       \* handle: len(apps) > 0
    apps,                \* handle: the list handed to process_apps
    found,               \* the number reported by "Found {} apps ..." (-1: not written)
    idx,                 \* process_apps: position of dotted_path in dotted_paths
    module,              \* process_apps: module returned by the resolver (<<>>: None)
    explicit_compiler,   \* process_apps: explicit compiler returned by the resolver
    compilers,           \* process_apps: the compilers of the current dotted_path
    cidx,                \* process_apps: position of FixtureCompiler in compilers
    base_dir,            \* process_apps: compiler.get_fixture_dir()
    compilers_processed, \* process_apps: the tally
    reported,            \* the quantity written by handle's summary line (-1: not written)
    test_runner,         \* Command.test_runner is set
    db,                  \* the rows of the test database
    setups,              \* calls of setup_databases
    teardowns,           \* calls of teardown_databases
    dumps,               \* the calls of dumpdata, in order
    stderr,              \* the lines written to self.stderr
    error,               \* the uncaught exception that ended the run
    hist,                \* the calls made so far, in order
    fd                   \* get_fixture_dir applied on its own: input and result

envvars == <<INSTALLED_APPS, importable, files, args>>
runvars == <<pc, explicit_list, apps, found, idx, module, explicit_compiler,
             compilers, cidx, base_dir, compilers_processed, reported,
             test_runner, db, setups, teardowns, dumps, stderr, error, hist>>
vars == <<envvars, runvars, fd>>

----------------------------------------------------------------------------
(* Bounds *)

\* The most identifiers the caller passes to handle().
MaxIds == 2
\* The longest declaring-module path given to get_fixture_dir on its own.
MaxDepth == 3

----------------------------------------------------------------------------
(* Dotted names and paths *)

Range(s) == {s[i] : i \in 1..Len(s)}

Prefix(names, k) == SubSeq(names, 1, k)

NoModule == <<>>
NoDir == <<>>

----------------------------------------------------------------------------
(* The environment: packages, modules and their attributes *)

Shop == <<"shop">>
ShopTests == <<"shop", "tests">>
ShopFC == <<"shop", "tests", "fixturecompilers">>
Lib == <<"lib">>
LibTests == <<"lib", "tests">>
LibFC == <<"lib", "tests", "fixturecompilers">>

\* Modules that always import; <app>.tests.fixturecompilers of shop may be
\* absent or broken.
AlwaysImportable == {Shop, ShopTests, Lib, LibTests, LibFC}

NoAttr == [name |-> "", kind |-> "none", declared |-> NoModule]

\* dir(module), in dir()'s sorted order.  kind: "compiler" a subclass of
\* BaseFixtureCompiler, "base" BaseFixtureCompiler itself, "value" a truthy
\* object that is no class, "falsy" a falsy object.
DirOf(m) ==
    IF m = ShopFC THEN
        << [name |-> "Alpha", kind |-> "compiler", declared |-> ShopFC],
           [name |-> "BaseFixtureCompiler", kind |-> "base",
            declared |-> <<"apps", "core", "tests", "fixturecompilers">>],
           [name |-> "Beta", kind |-> "compiler", declared |-> ShopFC],
           [name |-> "K", kind |-> "value", declared |-> NoModule],
           [name |-> "Z", kind |-> "falsy", declared |-> NoModule] >>
    ELSE IF m = LibFC THEN
        << [name |-> "Delta", kind |-> "compiler", declared |-> LibFC],
           [name |-> "Gamma", kind |-> "compiler", declared |-> LibFC] >>
    ELSE << >>

HasAttr(m, name) == \E i \in 1..Len(DirOf(m)) : DirOf(m)[i].name = name

\* getattr(module, name), for a name the module has.
GetAttr(m, name) ==
    LET i == CHOOSE j \in 1..Len(DirOf(m)) : DirOf(m)[j].name = name
    IN  DirOf(m)[i]

\* The identifiers a caller may pass.
Identifiers ==
    { Shop, Lib, ShopTests, ShopFC, LibFC,
      <<"shop", "tests", "fixturecompilers", "Beta">>,
      <<"shop", "tests", "fixturecompilers", "K">>,
      <<"shop", "tests", "fixturecompilers", "Z">>,
      <<"shop", "tests", "fixturecompilers", "Nope">>,
      <<"lib", "tests", "fixturecompilers", "Gamma">>,
      <<"shop", "nope", "deeper">>,
      <<"nope">> }

ArgLists == UNION {[1..n -> Identifiers] : n \in 0..MaxIds}

----------------------------------------------------------------------------
(* BaseFixtureCompiler *)

\* BaseFixtureCompiler.dumpdata_excludes
BaseExcludes ==
    {"aec_remrate", "customer_neea", "auth.permission", "contenttypes",
     "flatpages", "sites", "dynamicsites"}

\* BaseFixtureCompiler.format
DefaultFormat == "json"

\* A subclass's own dumpdata_excludes = [...] in its class body, if it has one.
DeclaresExcludes(cls) == cls \in {"Beta", "Gamma"}

OwnExcludes(cls) ==
    IF cls = "Beta" THEN {"shop.order"}
    ELSE IF cls = "Gamma" THEN BaseExcludes \cup {"lib.cache"}
    ELSE {}

\* compiler.dumpdata_excludes: the attribute lookup finds the subclass's own
\* list when it declares one, and the base class's otherwise.
dumpdata_excludes(cls) ==
    IF DeclaresExcludes(cls) THEN OwnExcludes(cls) ELSE BaseExcludes

\* A subclass's own filename, if any (<<>>: filename = None).
DeclaredFilename(cls) ==
    IF cls = "Gamma" THEN <<"gamma_data", "json">> ELSE <<>>

\* The class name in snake_case with "_fixture_compiler" stripped.
SnakeName(cls) ==
    CASE cls = "Alpha" -> "alpha"
      [] cls = "Beta" -> "beta"
      [] cls = "Delta" -> "delta"
      [] cls = "Gamma" -> "gamma"
      [] OTHER -> "base"

\* get_filename: [raised, path]; os.path.join gives one path component per
\* element joined.
get_filename(cls) ==
    IF DeclaredFilename(cls) # <<>>
    THEN [raised |-> FALSE, path |-> <<DeclaredFilename(cls)>>]
    ELSE IF SnakeName(cls) = ""
    THEN [raised |-> TRUE, path |-> NoDir]
    ELSE [raised |-> FALSE,
          path |-> << <<"compiled">>, <<SnakeName(cls), DefaultFormat>> >>]

\* The rows populate_database inserts.
PopulateRows(cls) == {cls}

\* The rows syncdb / flush(load_initial_data=True) leave in the database.
Baseline == {"initial_data"}

\* A faulty variant of the prefix order: the shortest prefix is tried first.
FixtureDirCandidateShortest(n, i) == i + 1

\* get_fixture_dir's loop: the prefix length tried in iteration i.  The
\* directory is os.path.join of the prefix's segments and 'fixtures': one path
\* component per segment.
FixtureDirCandidate(n, i) == n - i

RECURSIVE FixtureDirLoop(_, _, _)
FixtureDirLoop(names, i, installed) ==
    IF i >= Len(names)
    THEN [raised |-> TRUE, path |-> NoDir]
    ELSE LET k == FixtureDirCandidate(Len(names), i)
         IN  IF Prefix(names, k) \in installed
             THEN [raised |-> FALSE,
                   path |-> [j \in 1..k |-> <<names[j]>>] \o << <<"fixtures">> >>]
             ELSE FixtureDirLoop(names, i + 1, installed)

\* get_fixture_dir of a compiler declared in module names: [raised, path].
get_fixture_dir(names, installed) == FixtureDirLoop(names, 0, installed)

----------------------------------------------------------------------------
(* Command: helpers *)

\* _get_module_name
GetModuleName(app) == app \o <<"tests", "fixturecompilers">>

\* A faulty variant of _has_factories: every app is kept.
HasFactoriesAlways(app) == TRUE

\* _has_factories: os.path.isfile(<app>/tests/fixturecompilers.py)
HasFactories(app) == app \in files

\* filter(self._has_factories, apps)
RECURSIVE FilterApps(_)
FilterApps(s) ==
    IF s = <<>> THEN <<>>
    ELSE IF HasFactories(Head(s)) THEN <<Head(s)>> \o FilterApps(Tail(s))
    ELSE FilterApps(Tail(s))

\* _get_fixture_compilers: the classes of dir(module) that are subclasses of
\* BaseFixtureCompiler and not BaseFixtureCompiler itself.
RECURSIVE SelectCompilers(_)
SelectCompilers(s) ==
    IF s = <<>> THEN <<>>
    ELSE IF Head(s).kind = "compiler"
    THEN <<Head(s)>> \o SelectCompilers(Tail(s))
    ELSE SelectCompilers(Tail(s))

GetFixtureCompilers(m) == SelectCompilers(DirOf(m))

\* importlib.import_module(name) succeeds.
Imports(name) == name \in importable

\* The first i in 1..n whose prefix fails to import (0: every prefix imports).
FirstFailure(names) ==
    IF \A i \in 1..Len(names) : Imports(Prefix(names, i)) THEN 0
    ELSE CHOOSE i \in 1..Len(names) :
            /\ ~Imports(Prefix(names, i))
            /\ \A j \in 1..(i - 1) : Imports(Prefix(names, j))

Returned(m, c) == [raised |-> "none", module |-> m, explicit_compiler |-> c]
Raised(exc) == [raised |-> exc, module |-> NoModule, explicit_compiler |-> NoAttr]

\* A faulty variant of the probe's except clause: the ImportError is always swallowed.
ProbeFailedSwallow(explicit) == Returned(NoModule, NoAttr)

\* _get_compiler_module, lines 85-92: the import of <app>.tests.fixturecompilers failed.
ProbeFailed(explicit) ==
    IF explicit THEN Raised("ImportError") ELSE Returned(NoModule, NoAttr)

\* A faulty variant of the except clause of the prefix loop: a failure with segments
\* left is swallowed and the identifier skipped.
PrefixFailedSwallow(names, i) == Returned(NoModule, NoAttr)

\* _get_compiler_module, lines 69-76: the import of the prefix of length i failed.
PrefixFailed(names, i) ==
    IF i < Len(names) THEN Raised("ImportError")
    ELSE LET m == IF i = 1 THEN NoModule ELSE Prefix(names, i - 1)
         IN  IF m = NoModule \/ ~HasAttr(m, names[Len(names)])
             THEN Raised("AttributeError")
             ELSE Returned(m, GetAttr(m, names[Len(names)]))

\* A faulty variant of the for..else clause: an installed app's name is taken for
\* the module to search, without the probe of <app>.tests.fixturecompilers.
GetCompilerModuleNoProbe(dotted_path, explicit) ==
    LET ff == FirstFailure(dotted_path)
    IN  IF ff # 0 THEN PrefixFailed(dotted_path, ff)
        ELSE Returned(dotted_path, NoAttr)

\* _get_compiler_module(dotted_path, explicit_list)
GetCompilerModule(dotted_path, explicit) ==
    LET ff == FirstFailure(dotted_path)
    IN  IF ff # 0 THEN PrefixFailed(dotted_path, ff)
        ELSE IF dotted_path \in Range(INSTALLED_APPS)
        THEN IF Imports(GetModuleName(dotted_path))
             THEN Returned(GetModuleName(dotted_path), NoAttr)
             ELSE ProbeFailed(explicit)
        ELSE Returned(dotted_path, NoAttr)

\* "if not explicit_compiler": None and falsy objects.
IsFalsy(c) == c.kind \in {"none", "falsy"}

NoError == [where |-> "none", exc |-> "none"]

Event(op, path, cls, info) == [op |-> op, path |-> path, cls |-> cls, info |-> info]

----------------------------------------------------------------------------
(* Initial states *)

NoFd == [module |-> <<>>, installed |-> {}, called |-> FALSE,
         raised |-> FALSE, path |-> NoDir]

RunInit ==
    /\ pc = "handle"
    /\ explicit_list = FALSE
    /\ apps = <<>>
    /\ found = -1
    /\ idx = 1
    /\ module = NoModule
    /\ explicit_compiler = NoAttr
    /\ compilers = <<>>
    /\ cidx = 1
    /\ base_dir = NoDir
    /\ compilers_processed = 0
    /\ reported = -1
    /\ test_runner = FALSE
    /\ db = {}
    /\ setups = 0
    /\ teardowns = 0
    /\ dumps = <<>>
    /\ stderr = 0
    /\ error = NoError
    /\ hist = <<>>

Init ==
    /\ INSTALLED_APPS \in {<<Shop>>, <<Shop, Lib>>, <<Lib, Shop>>}
    /\ \E shopModule \in BOOLEAN :
          importable = AlwaysImportable \cup (IF shopModule THEN {ShopFC} ELSE {})
    /\ \E shopFile \in BOOLEAN :
          files = {Lib} \cup (IF shopFile THEN {Shop} ELSE {})
    /\ args \in ArgLists
    /\ RunInit
    /\ fd = NoFd

----------------------------------------------------------------------------
(* Command.handle and Command.process_apps *)

\* handle, lines 101-109: the list of apps to process.
Handle ==
    /\ pc = "handle"
    /\ explicit_list' = (Len(args) > 0)
    /\ IF Len(args) > 0
       THEN /\ apps' = args
            /\ found' = found
       ELSE /\ apps' = FilterApps(INSTALLED_APPS)
            /\ found' = Len(FilterApps(INSTALLED_APPS))
    /\ idx' = 1
    /\ compilers_processed' = 0
    /\ pc' = "process"
    /\ UNCHANGED <<module, explicit_compiler, compilers, cidx, base_dir, reported,
                   test_runner, db, setups, teardowns, dumps, stderr, error, hist>>
    /\ UNCHANGED <<envvars, fd>>

\* process_apps, lines 122-126: resolve the next dotted path.
Resolve ==
    /\ pc = "process"
    /\ idx <= Len(apps)
    /\ LET r == GetCompilerModule(apps[idx], explicit_list)
       IN  /\ hist' = Append(hist, Event("resolve", apps[idx], "", r.raised))
           /\ IF r.raised # "none"
              THEN /\ pc' = "crashed"
                   /\ error' = [where |-> "resolve", exc |-> r.raised]
                   /\ UNCHANGED <<idx, module, explicit_compiler>>
              ELSE /\ module' = r.module
                   /\ explicit_compiler' = r.explicit_compiler
                   /\ error' = error
                   /\ IF r.module = NoModule
                      THEN pc' = "process" /\ idx' = idx + 1
                      ELSE pc' = "expand" /\ idx' = idx
    /\ UNCHANGED <<explicit_list, apps, found, compilers, cidx, base_dir,
                   compilers_processed, reported, test_runner, db, setups,
                   teardowns, dumps, stderr>>
    /\ UNCHANGED <<envvars, fd>>

\* process_apps, lines 128-136: the compilers of the resolved module.
Expand ==
    /\ pc = "expand"
    /\ LET cs == IF IsFalsy(explicit_compiler)
                 THEN GetFixtureCompilers(module)
                 ELSE <<explicit_compiler>>
       IN  /\ compilers' = cs
           /\ cidx' = 1
           /\ hist' = Append(hist, Event("expand", apps[idx], "",
                                         IF cs = <<>> THEN "empty" ELSE "compilers"))
           /\ IF cs = <<>>
              THEN pc' = "process" /\ idx' = idx + 1
              ELSE pc' = "ensure" /\ idx' = idx
    /\ UNCHANGED <<explicit_list, apps, found, module, explicit_compiler, base_dir,
                   compilers_processed, reported, test_runner, db, setups,
                   teardowns, dumps, stderr, error>>
    /\ UNCHANGED <<envvars, fd>>

\* A faulty variant of _ensure_db_built's guard: the database is set up every time.
NeedsSetupAlways == TRUE

\* _ensure_db_built, line 37: "if not self.test_runner".
NeedsSetup == ~test_runner

\* process_apps, line 141: _ensure_db_built().
EnsureDbBuilt ==
    /\ pc = "ensure"
    /\ IF NeedsSetup
       THEN /\ test_runner' = TRUE
            /\ setups' = setups + 1
            /\ db' = Baseline
            /\ hist' = Append(hist, Event("setup", apps[idx], compilers[cidx].name, ""))
       ELSE UNCHANGED <<test_runner, setups, db, hist>>
    /\ pc' = "dir"
    /\ UNCHANGED <<explicit_list, apps, found, idx, module, explicit_compiler,
                   compilers, cidx, base_dir, compilers_processed, reported,
                   teardowns, dumps, stderr, error>>
    /\ UNCHANGED <<envvars, fd>>

\* The end of one iteration of "for FixtureCompiler in compilers", or its break.
NextCompiler(break) ==
    IF break \/ cidx >= Len(compilers)
    THEN pc' = "process" /\ idx' = idx + 1 /\ cidx' = cidx
    ELSE pc' = "ensure" /\ idx' = idx /\ cidx' = cidx + 1

\* process_apps, lines 143-150: instantiate the compiler and ask for its
\* fixture directory.
GetFixtureDir ==
    /\ pc = "dir"
    /\ LET c == compilers[cidx]
       IN  IF c.kind \notin {"compiler", "base"}
           THEN \* FixtureCompiler() of an object that is no class
                /\ pc' = "crashed"
                /\ error' = [where |-> "instantiate", exc |-> "TypeError"]
                /\ hist' = hist
                /\ UNCHANGED <<idx, cidx, base_dir, stderr>>
           ELSE LET d == get_fixture_dir(c.declared, Range(INSTALLED_APPS))
                IN  /\ hist' = Append(hist, Event("instantiate", apps[idx], c.name, ""))
                    /\ IF d.raised
                       THEN /\ pc' = "crashed"
                            /\ error' = [where |-> "get_fixture_dir", exc |-> "ValueError"]
                            /\ UNCHANGED <<idx, cidx, base_dir, stderr>>
                       ELSE /\ base_dir' = d.path
                            /\ error' = error
                            /\ IF d.path = NoDir
                               THEN /\ stderr' = stderr + 1
                                    /\ NextCompiler(TRUE)
                               ELSE /\ stderr' = stderr
                                    /\ pc' = "compile"
                                    /\ UNCHANGED <<idx, cidx>>
    /\ UNCHANGED <<explicit_list, apps, found, module, explicit_compiler, compilers,
                   compilers_processed, reported, test_runner, db, setups,
                   teardowns, dumps>>
    /\ UNCHANGED <<envvars, fd>>

\* process_apps, lines 152-153, and compile_fixture: populate the database and
\* dump it.  populate_database and the writing of the dump may raise.
CompileFixture ==
    /\ pc = "compile"
    /\ LET c == compilers[cidx]
           f == get_filename(c.name)
       IN  IF f.raised
           THEN /\ pc' = "crashed"
                /\ error' = [where |-> "get_filename", exc |-> "ValueError"]
                /\ UNCHANGED <<db, dumps, compilers_processed, hist>>
           ELSE \E outcome \in {"ok", "populate", "dump"} :
                /\ hist' = Append(hist, Event("populate", apps[idx], c.name, outcome))
                /\ IF outcome = "populate"
                   THEN /\ \E rows \in SUBSET PopulateRows(c.name) : db' = db \cup rows
                        /\ pc' = "crashed"
                        /\ error' = [where |-> "populate", exc |-> "Exception"]
                        /\ UNCHANGED <<dumps, compilers_processed>>
                   ELSE /\ db' = db \cup PopulateRows(c.name)
                        /\ IF outcome = "dump"
                           THEN /\ pc' = "crashed"
                                /\ error' = [where |-> "dump", exc |-> "Exception"]
                                /\ UNCHANGED <<dumps, compilers_processed>>
                           ELSE /\ dumps' = Append(dumps,
                                        [cls |-> c.name,
                                         path |-> base_dir \o f.path,
                                         rows |-> db \cup PopulateRows(c.name),
                                         exclude |-> dumpdata_excludes(c.name),
                                         position |-> idx])
                                /\ compilers_processed' = compilers_processed + 1
                                /\ pc' = "flush"
                                /\ error' = error
    /\ UNCHANGED <<explicit_list, apps, found, idx, module, explicit_compiler,
                   compilers, cidx, base_dir, reported, test_runner, setups,
                   teardowns, stderr>>
    /\ UNCHANGED <<envvars, fd>>

\* A faulty variant of flush: the rows are left in place.
FlushedRowsKept == db

\* call_command('flush', load_initial_data=True): the rows left in the database.
FlushedRows == Baseline

\* process_apps, line 154: flush, then the next compiler.
Flush ==
    /\ pc = "flush"
    /\ db' = FlushedRows
    /\ hist' = Append(hist, Event("flush", apps[idx], compilers[cidx].name, ""))
    /\ NextCompiler(FALSE)
    /\ UNCHANGED <<explicit_list, apps, found, module, explicit_compiler, compilers,
                   base_dir, compilers_processed, reported, test_runner, setups,
                   teardowns, dumps, stderr, error>>
    /\ UNCHANGED <<envvars, fd>>

\* A faulty variant of handle's teardown guard: teardown is always called.
TeardownNeededAlways == TRUE

\* handle, line 117: "if self.test_runner".
TeardownNeeded == test_runner

\* process_apps returns; handle, lines 112-118: the summary and the teardown.
Finish ==
    /\ pc = "process"
    /\ idx > Len(apps)
    /\ reported' = compilers_processed
    /\ IF TeardownNeeded
       THEN /\ teardowns' = teardowns + 1
            /\ db' = {}
            /\ hist' = Append(hist, Event("teardown", <<>>, "", ""))
       ELSE UNCHANGED <<teardowns, db, hist>>
    /\ pc' = "done"
    /\ UNCHANGED <<explicit_list, apps, found, idx, module, explicit_compiler,
                   compilers, cidx, base_dir, compilers_processed, test_runner,
                   setups, dumps, stderr, error>>
    /\ UNCHANGED <<envvars, fd>>

Next ==
    \/ Handle
    \/ Resolve
    \/ Expand
    \/ EnsureDbBuilt
    \/ GetFixtureDir
    \/ CompileFixture
    \/ Flush
    \/ Finish

Spec == Init /\ [][Next]_vars

----------------------------------------------------------------------------
(* get_fixture_dir on its own *)

Segments == {"apps", "core"}

DottedNames(maxlen) == UNION {[1..n -> Segments] : n \in 1..maxlen}

FdInit ==
    /\ INSTALLED_APPS = <<>>
    /\ importable = {}
    /\ files = {}
    /\ args = <<>>
    /\ RunInit
    /\ \E m \in DottedNames(MaxDepth), inst \in SUBSET DottedNames(2) :
          fd = [module |-> m, installed |-> inst, called |-> FALSE,
                raised |-> FALSE, path |-> NoDir]

CallGetFixtureDir ==
    /\ ~fd.called
    /\ LET d == get_fixture_dir(fd.module, fd.installed)
       IN  fd' = [fd EXCEPT !.called = TRUE, !.raised = d.raised, !.path = d.path]
    /\ UNCHANGED <<envvars, runvars>>

FdNext == CallGetFixtureDir

FdSpec == FdInit /\ [][FdNext]_vars

----------------------------------------------------------------------------
(* Properties *)

HistIdx(op) == {i \in 1..Len(hist) : hist[i].op = op}

Ended == pc \in {"done", "crashed"}

\* The identifier yielded at least one compiler to the per-compiler loop.
SomeCompilerReached == \E i \in HistIdx("expand") : hist[i].info = "compilers"

\* C1: every snapshot holds baseline data plus the rows of its own compiler
\* only; the database is at baseline whenever a compiler is about to populate
\* it; and between two consecutive population steps, of the same or of
\* different identifiers, the database has been flushed.
C1_SnapshotsIsolated ==
    /\ \A i \in 1..Len(dumps) :
          dumps[i].rows = Baseline \cup PopulateRows(dumps[i].cls)
    /\ (pc = "compile" => db = Baseline)
    /\ \A i, j \in HistIdx("populate") :
          i < j => \E k \in HistIdx("flush") : i < k /\ k < j

\* C1 witness: two snapshots were written for compilers of different
\* identifiers.
C1_Witness ==
    /\ Len(dumps) >= 2
    /\ \E i, j \in 1..Len(dumps) :
          /\ i < j
          /\ dumps[i].position # dumps[j].position
          /\ dumps[i].cls # dumps[j].cls

\* The part of C2 that the code satisfies: setup_databases is called at most
\* once, the handle is kept, and the call comes only after an identifier has
\* resolved to a non-empty list of compilers and before any compiler is
\* instantiated or populated.
C2_SetupOnceAtFirstCompiler ==
    /\ setups <= 1
    /\ (setups = 1 <=> test_runner)
    /\ Cardinality(HistIdx("setup")) = setups
    /\ \A i \in HistIdx("setup") :
          /\ \A j \in 1..(i - 1) : hist[j].op \in {"resolve", "expand"}
          /\ i > 1 /\ hist[i - 1].op = "expand" /\ hist[i - 1].info = "compilers"

\* C2 as amended: the database is provisioned at most once, only when the
\* first compiler class is about to be instantiated, and an invocation in
\* which no identifier yields a compiler never provisions it.
C2_LazySetup ==
    /\ C2_SetupOnceAtFirstCompiler
    /\ (setups = 1 => SomeCompilerReached)
    /\ (Ended /\ ~SomeCompilerReached => setups = 0)

\* C2 as stated: as above, and an invocation that runs zero compilers (no
\* populate_database was invoked) never provisions a database.
C2_Original ==
    /\ C2_SetupOnceAtFirstCompiler
    /\ (Ended /\ HistIdx("populate") = {} => setups = 0)

\* C2 witness: a run that executed three compilers with one database.
C2_Witness == pc = "done" /\ compilers_processed >= 3 /\ setups = 1

\* C3: teardown_databases is called at most once, only by the end of handle
\* after the last identifier, exactly when a database was provisioned; it is
\* never called when none was provisioned, and never when the run ended with
\* an uncaught error.
C3_Teardown ==
    /\ teardowns <= 1
    /\ (pc = "done" => (teardowns = 1 <=> setups >= 1))
    /\ (pc # "done" => teardowns = 0)
    /\ (setups = 0 => teardowns = 0)
    /\ (teardowns = 1 =>
          /\ idx > Len(apps)
          /\ hist[Len(hist)].op = "teardown"
          /\ Cardinality(HistIdx("teardown")) = 1)

\* C3 witness: a completed run of two identifiers that tore its database down.
C3_Witness == pc = "done" /\ teardowns = 1 /\ Len(apps) = 2 /\ compilers_processed >= 1

\* C3 second case: a population or serialization error after provisioning
\* leaves the database without teardown.
C3_LeakReached == pc = "crashed" /\ error.where \in {"populate", "dump"} /\ setups = 1

\* The identifier resolves to neither a module nor a class: a prefix fails to
\* import with more than one segment left, or the last segment is not an
\* attribute of the module imported before it.
Unresolvable(p) ==
    LET ff == FirstFailure(p)
    IN  /\ ff # 0
        /\ \/ ff < Len(p)
           \/ Len(p) = 1
           \/ ~HasAttr(Prefix(p, Len(p) - 1), p[Len(p)])

\* C4 as stated: in an explicit run that fails on an unresolvable identifier,
\* at whatever position, the database has never been provisioned.
C4_Original ==
    (explicit_list /\ pc = "crashed" /\ error.where = "resolve"
        /\ Unresolvable(apps[idx])) => setups = 0

\* C4 as amended: in an explicit run, resolving an unresolvable identifier
\* ends the run with a fatal error and provisions nothing; a database exists
\* at that point only if an earlier identifier of the list yielded a compiler,
\* so never when the identifier is the first one.
C4_FailFast ==
    [][ (pc = "process" /\ idx <= Len(apps) /\ explicit_list
            /\ Unresolvable(apps[idx]))
        => /\ pc' = "crashed"
           /\ error'.where = "resolve"
           /\ reported' = -1
           /\ UNCHANGED <<setups, test_runner, db, teardowns>>
           /\ (setups = 1 <=> SomeCompilerReached)
           /\ (idx = 1 => setups = 0) ]_vars

\* C4 witness: the second identifier of an explicit run failed to resolve after
\* the first one had provisioned the database.
C4_Witness ==
    /\ explicit_list /\ pc = "crashed" /\ error.where = "resolve"
    /\ Unresolvable(apps[idx]) /\ idx = 2 /\ setups = 1

\* C5: a compiler whose fixture directory cannot be determined does not abort
\* the run: the run never ends with get_fixture_dir's error.
C5_DirFailureDoesNotAbort ==
    ~(pc = "crashed" /\ error.where = "get_fixture_dir")

\* C6: the exclude list handed to dumpdata is the built-in list united with
\* the compiler's own list, so it always contains every built-in exclusion.
C6_ExcludesUnion ==
    \A i \in 1..Len(dumps) :
        /\ BaseExcludes \subseteq dumps[i].exclude
        /\ dumps[i].exclude = BaseExcludes \cup OwnExcludes(dumps[i].cls)

AppsWithFile == {i \in 1..Len(INSTALLED_APPS) : INSTALLED_APPS[i] \in files}

\* C7: in an implicit run the apps without <app>/tests/fixturecompilers.py are
\* not counted as found, are never handed to the resolver, and nothing (no
\* provisioning, no compiler) is done on their behalf; when every installed
\* app lacks the module nothing is provisioned and the tally is 0.
C7_ImplicitFilter ==
    (Len(args) = 0 /\ pc # "handle") =>
        /\ found = Cardinality(AppsWithFile)
        /\ \A a \in Range(INSTALLED_APPS) \ files :
              /\ a \notin Range(apps)
              /\ \A i \in 1..Len(hist) : hist[i].path # a
        /\ (AppsWithFile = {} =>
              /\ setups = 0
              /\ HistIdx("resolve") = {}
              /\ (Ended => pc = "done" /\ reported = 0))

\* C7 witness: an implicit run over two installed apps, one of which lacks the
\* module, finished after running the other's compilers.
C7_Witness ==
    /\ Len(args) = 0 /\ pc = "done"
    /\ Len(INSTALLED_APPS) = 2 /\ Cardinality(AppsWithFile) = 1
    /\ reported = 2 /\ setups = 1

\* The identifier imports as a module chain and is an installed app whose
\* <app>.tests.fixturecompilers fails to import.
ProbeFails(p) ==
    /\ FirstFailure(p) = 0
    /\ p \in Range(INSTALLED_APPS)
    /\ ~Imports(GetModuleName(p))

\* C8: when the probe of <app>.tests.fixturecompilers fails, an implicit sweep
\* gets (None, None) and skips the identifier, leaving tally, database and
\* error state untouched; an explicit run ends with the ImportError.
C8_ProbeFailure ==
    [][ (pc = "process" /\ idx <= Len(apps) /\ ProbeFails(apps[idx]))
        => IF explicit_list
           THEN /\ pc' = "crashed"
                /\ error' = [where |-> "resolve", exc |-> "ImportError"]
                /\ reported' = -1
           ELSE /\ pc' = "process"
                /\ idx' = idx + 1
                /\ module' = NoModule
                /\ explicit_compiler' = NoAttr
                /\ error' = NoError
                /\ UNCHANGED <<compilers_processed, db, setups, test_runner,
                               dumps, stderr, teardowns>> ]_vars

\* C8 witness: an implicit sweep skipped an app whose module is broken after
\* another app's compilers had run, and finished.
C8_Witness ==
    /\ Len(args) = 0 /\ pc = "done" /\ reported = 2
    /\ \E i \in HistIdx("resolve") :
          /\ ProbeFails(hist[i].path)
          /\ hist[i].info = "none"
          /\ \E j \in HistIdx("flush") : j < i

\* C8 in explicit mode: the run ended with the probe's ImportError.
C8_ExplicitReached ==
    /\ explicit_list /\ pc = "crashed" /\ ProbeFails(apps[idx])
    /\ error = [where |-> "resolve", exc |-> "ImportError"]

HasInstalledPrefix(names, installed) ==
    \E k \in 1..Len(names) : Prefix(names, k) \in installed

LongestInstalledPrefix(names, installed) ==
    CHOOSE k \in 1..Len(names) :
        /\ Prefix(names, k) \in installed
        /\ \A j \in (k + 1)..Len(names) : Prefix(names, j) \notin installed

C10_FailingPrefix(p) ==
    LET n == Len(p)
        ff == FirstFailure(p)
    IN  /\ (ff = n /\ n >= 2 /\ HasAttr(Prefix(p, n - 1), p[n])) =>
              /\ pc' = "expand"
              /\ module' = Prefix(p, n - 1)
              /\ explicit_compiler' = GetAttr(Prefix(p, n - 1), p[n])
        /\ (ff # 0 /\ ff < n) =>
              /\ pc' = "crashed"
              /\ error' = [where |-> "resolve", exc |-> "ImportError"]
              /\ UNCHANGED <<module, explicit_compiler>>

\* The clause of C10 about the runner: an explicit class is the only compiler
\* of its identifier.
C10_RunsExplicitClass ==
    (pc = "expand" /\ explicit_compiler.kind \in {"compiler", "base"}) =>
        /\ compilers' = <<explicit_compiler>>
        /\ pc' = "ensure"

\* C10 as stated: if every prefix imports the result is a module with no
\* explicit class; the clauses about a failing prefix as above.
C10_Original ==
    [][ /\ (pc = "process" /\ idx <= Len(apps)) =>
              /\ (FirstFailure(apps[idx]) = 0 =>
                    /\ pc' = "expand"
                    /\ module' # NoModule
                    /\ explicit_compiler' = NoAttr)
              /\ C10_FailingPrefix(apps[idx])
        /\ C10_RunsExplicitClass ]_vars

\* C10 as amended: if every prefix imports, the result has no explicit class
\* and its module is the identifier itself or, for an installed app, its
\* <app>.tests.fixturecompilers, unless that probe fails, when no module is
\* returned; a single failing segment that is no attribute of the imported
\* module (or has no module before it) is an AttributeError; the clauses about
\* a failing prefix as above.
C10_Resolver ==
    [][ /\ (pc = "process" /\ idx <= Len(apps)) =>
              LET p == apps[idx]
                  n == Len(p)
              IN  /\ (FirstFailure(p) = 0 /\ ~ProbeFails(p)) =>
                        /\ pc' = "expand"
                        /\ module' = IF p \in Range(INSTALLED_APPS)
                                     THEN GetModuleName(p) ELSE p
                        /\ explicit_compiler' = NoAttr
                  /\ ProbeFails(p) =>
                        \/ pc' = "crashed"
                        \/ pc' = "process" /\ module' = NoModule
                  /\ (FirstFailure(p) = n
                        /\ (n = 1 \/ ~HasAttr(Prefix(p, n - 1), p[n]))) =>
                        /\ pc' = "crashed"
                        /\ error' = [where |-> "resolve", exc |-> "AttributeError"]
                  /\ C10_FailingPrefix(p)
        /\ C10_RunsExplicitClass ]_vars

\* C10 witness: an identifier module.Class was resolved to that class alone
\* and the class was run.
C10_Witness ==
    /\ pc = "flush"
    /\ explicit_compiler.kind = "compiler"
    /\ module = Prefix(apps[idx], Len(apps[idx]) - 1)
    /\ explicit_compiler.name = apps[idx][Len(apps[idx])]
    /\ compilers = <<explicit_compiler>>
    /\ dumps[Len(dumps)].cls = explicit_compiler.name

====
